---- MODULE Spec2Model ----
(***************************************************************************)
(* A model of src/chatbot.py: the Streamlit chat front end for Google      *)
(* Gemini.  The program's state is st.session_state (messages,             *)
(* api_key_configured, model) together with the value held by the          *)
(* sidebar's API-key widget.  Every user interaction makes Streamlit run   *)
(* main() from the top, so each action below is one whole script run: the  *)
(* sidebar's configuration block, then the handler of the widget that      *)
(* triggered the run, then (after st.rerun()) the script once more.        *)
(* Texts are TLA+ strings built with \o exactly as the f-strings and       *)
(* "\n".join build them.  The text in the input box is a tuple of pieces,  *)
(* each piece one whitespace character or a run of characters that neither *)
(* starts nor ends with whitespace, so that str.strip() is computed rather *)
(* than assumed.                                                           *)
(***************************************************************************)
EXTENDS Integers, Sequences, FiniteSets, TLC

VARIABLES
    messages,            \* st.session_state.messages: list of {user, assistant, timestamp}
    api_key_configured,  \* st.session_state.api_key_configured
    model,               \* st.session_state.model: None or a GenerativeModel
    api_key,             \* the value of the sidebar's st.text_input
    appends,             \* number of messages.append calls since the list was last replaced
    out                  \* what the last script run called and rendered

vars == <<messages, api_key_configured, model, api_key, appends, out>>

-----------------------------------------------------------------------------
(* Bounds of the exploration *)

\* The longest transcript explored; no send is taken beyond it.
MaxLen == 7
\* The quick-action buttons are explored on transcripts shorter than this.
MaxQuickLen == 1

(* Program constants *)

\* chat_history[-5:]
WindowSize == 5

-----------------------------------------------------------------------------
(* The environment: keys, texts typed by the user, provider outcomes *)

\* Keys the user may type into the sidebar; "" is the empty widget.
Keys == {"", "good-key", "new-key", "bad-key"}

\* Keys for which genai.configure / genai.GenerativeModel do not raise.
ValidKeys == {"good-key", "new-key"}

\* str(e) of the exception raised for any other key.
ConfigCause == "API key not valid"

\* What the user may leave in the text area when pressing Send.
TypedInputs == { <<>>, <<" ", "\n">>, <<"hi">> }

\* The three preset prompts of the quick-action buttons.
QuickActions ==
    { <<"What is artificial intelligence and how does it work?">>,
      <<"Can you help me with a coding problem?">>,
      <<"Help me write a creative story or poem">> }

\* What the provider does with one request: it answers, or model.start_chat
\* raises, or chat.send_message (or response.text) raises.
\* datetime.now(): the instants are only ever displayed, and all stand for one.
Instants == {"now"}

ProviderOutcomes ==
    { [fail_at |-> "none",         text |-> "hello"],
      [fail_at |-> "start_chat",   text |-> "timeout"],
      [fail_at |-> "send_message", text |-> "timeout"] }

-----------------------------------------------------------------------------
(* Values *)

None == [kind |-> "None"]

GenerativeModel(key) ==
    [kind |-> "GenerativeModel", name |-> "gemini-2.0-flash", api_key |-> key]

\* str(e) of the AttributeError raised by None.start_chat
NoneTypeCause == "'NoneType' object has no attribute 'start_chat'"

Max(a, b) == IF a >= b THEN a ELSE b

Min(a, b) == IF a <= b THEN a ELSE b

\* The Python str made of the pieces.
RECURSIVE Str(_)
Str(cs) == IF cs = <<>> THEN "" ELSE cs[1] \o Str(Tail(cs))

\* Characters str.strip() removes.
Whitespace == {" ", "\t", "\n", "\r", "\f"}

RECURSIVE lstrip(_)
lstrip(cs) ==
    IF cs # <<>> /\ cs[1] \in Whitespace THEN lstrip(Tail(cs)) ELSE cs

RECURSIVE rstrip(_)
rstrip(cs) ==
    IF cs # <<>> /\ cs[Len(cs)] \in Whitespace
    THEN rstrip(SubSeq(cs, 1, Len(cs) - 1))
    ELSE cs

\* user_input.strip()
strip(cs) == rstrip(lstrip(cs))

\* sep.join(parts)
RECURSIVE join(_, _)
join(sep, parts) ==
    IF parts = <<>> THEN ""
    ELSE IF Len(parts) = 1 THEN parts[1]
    ELSE parts[1] \o sep \o join(sep, Tail(parts))

-----------------------------------------------------------------------------
(* The functions of chatbot.py *)

\* initialize_session_state(), on the first run of a session
initialize_session_state ==
    [messages |-> <<>>, api_key_configured |-> FALSE, model |-> None]

\* the except branch returning True for success
configure_gemini_api_true_on_error(key) ==
    IF key \in ValidKeys
    THEN [model |-> GenerativeModel(key), success |-> TRUE, error |-> <<>>]
    ELSE [model |-> None, success |-> TRUE,
          error |-> <<"Error configuring API: " \o ConfigCause>>]

\* configure_gemini_api(api_key): the pair it returns and what st.error shows
configure_gemini_api(key) ==
    IF key \in ValidKeys
    THEN [model |-> GenerativeModel(key), success |-> TRUE, error |-> <<>>]
    ELSE [model |-> None, success |-> FALSE,
          error |-> <<"Error configuring API: " \o ConfigCause>>]

\* chat_history[:5], the first exchanges instead of the last
last_exchanges_from_start(chat_history) ==
    SubSeq(chat_history, 1, Min(Len(chat_history), WindowSize))

\* chat_history[-5:]
last_exchanges(chat_history) ==
    SubSeq(chat_history, Max(Len(chat_history) - WindowSize, 0) + 1,
           Len(chat_history))

\* f"User: {msg['user']}\nAssistant: {msg['assistant']}"
render_exchange(msg) ==
    "User: " \o msg.user \o "\nAssistant: " \o msg.assistant

\* "\n".join([... for msg in chat_history[-5:]])
build_context(chat_history) ==
    LET window == last_exchanges(chat_history)
    IN  join("\n", [i \in 1..Len(window) |-> render_exchange(window[i])])

\* the wrapper applied whether or not there is history
build_full_prompt_always(prompt, chat_history) ==
    "Previous conversation:\n" \o build_context(chat_history)
    \o "\n\nCurrent question: " \o prompt

\* full_prompt, from the if chat_history / else of get_gemini_response
build_full_prompt(prompt, chat_history) ==
    IF chat_history # <<>>
    THEN "Previous conversation:\n" \o build_context(chat_history)
         \o "\n\nCurrent question: " \o prompt
    ELSE prompt

\* str(e) alone, the prefix forgotten
error_response_bare(cause) == cause

\* f"Error generating response: {str(e)}"
error_response(cause) == "Error generating response: " \o cause

\* get_gemini_response(model, prompt, chat_history): .text is the value it
\* returns; the other fields record the calls it made on the way.
get_gemini_response(client, prompt, chat_history, provider) ==
    LET called == [client |-> client, sent |-> FALSE, full_prompt |-> "",
                   window |-> <<>>, context |-> "", text |-> ""]
    IN  IF client = None
        THEN [called EXCEPT !.text = error_response(NoneTypeCause)]
        ELSE IF provider.fail_at = "start_chat"
        THEN [called EXCEPT !.text = error_response(provider.text)]
        ELSE LET asked ==
                   [called EXCEPT
                      !.sent = TRUE,
                      !.full_prompt = build_full_prompt(prompt, chat_history),
                      !.window = IF chat_history # <<>>
                                 THEN last_exchanges(chat_history) ELSE <<>>,
                      !.context = IF chat_history # <<>>
                                  THEN build_context(chat_history) ELSE ""]
             IN  IF provider.fail_at = "send_message"
                 THEN [asked EXCEPT !.text = error_response(provider.text)]
                 ELSE [asked EXCEPT !.text = provider.text]

-----------------------------------------------------------------------------
(* The blocks of main(), as functions of the session state s *)

\* if api_key: ... configure, store the model, set the flag
sidebar_configure(s, key) ==
    IF key # "" /\ (~s.api_key_configured \/ s.model = None)
    THEN LET r == configure_gemini_api(key)
         IN  IF r.success
             THEN [s EXCEPT !.model = r.model, !.api_key_configured = TRUE,
                            !.calls = Append(@, key)]
             ELSE [s EXCEPT !.api_key_configured = FALSE,
                            !.calls = Append(@, key),
                            !.errors = @ \o r.error]
    ELSE s

\* a clear that resets the whole session, not the messages alone
clear_chat_everything(s) ==
    [s EXCEPT !.messages = <<>>, !.model = None, !.api_key_configured = FALSE]

\* if st.button("Clear Chat"): st.session_state.messages = []
clear_chat(s) == [s EXCEPT !.messages = <<>>]

\* the loop that fills chat_export
RECURSIVE export_lines(_)
export_lines(msgs) ==
    IF msgs = <<>> THEN <<>>
    ELSE << "User: " \o msgs[1].user,
            "Assistant: " \o msgs[1].assistant,
            "---" >> \o export_lines(Tail(msgs))

\* every line ended by a newline, the last one too
export_chat_newline_ended(msgs) ==
    IF msgs # <<>> THEN << join("\n", export_lines(msgs)) \o "\n" >> ELSE <<>>

\* if st.button("Export Chat"): the data of the download button, if one is shown
export_chat(msgs) ==
    IF msgs # <<>> THEN << join("\n", export_lines(msgs)) >> ELSE <<>>

\* chat_history = [{"user": ..., "assistant": ...} for msg in messages]
history_of(msgs) ==
    [i \in 1..Len(msgs) |-> [user |-> msgs[i].user, assistant |-> msgs[i].assistant]]

\* messages.insert(0, {...}): the exchange put first
append_exchange_in_front(msgs, user_input, ai_response, timestamp) ==
    << [user |-> user_input, assistant |-> ai_response,
        timestamp |-> timestamp] >> \o msgs

\* st.session_state.messages.append({...})
append_exchange(msgs, user_input, ai_response, timestamp) ==
    Append(msgs, [user |-> user_input, assistant |-> ai_response,
                  timestamp |-> timestamp])

\* if submit_button and user_input: the strip forgotten
accepts_input_unstripped(pieces) == pieces # <<>>

\* if submit_button and user_input.strip():
accepts_input(pieces) == strip(pieces) # <<>>

-----------------------------------------------------------------------------
(* One script run *)

\* The session state at the start of a run, with nothing called or shown yet.
session ==
    [messages |-> messages, api_key_configured |-> api_key_configured,
     model |-> model, calls |-> <<>>, errors |-> <<>>]

\* What a run that asks the provider nothing leaves in out.
quiet(kind, s) ==
    [kind |-> kind, calls |-> s.calls, errors |-> s.errors,
     typed |-> <<>>, input |-> "", asked |-> FALSE, provider |-> None,
     client |-> None, sent |-> FALSE, full_prompt |-> "", window |-> <<>>,
     context |-> "", response |-> "", discarded |-> 0, download |-> <<>>]

\* The run stores s back into st.session_state.
store(s) ==
    /\ messages' = s.messages
    /\ api_key_configured' = s.api_key_configured
    /\ model' = s.model

\* The chat form is submitted with `pieces` in user_input (typed, or set by a
\* quick-action button) while the provider will do `provider`.
submit(kind, pieces, provider, timestamp) ==
    LET s1 == sidebar_configure(session, api_key)
        go == s1.api_key_configured /\ accepts_input(pieces)
        user_input == Str(pieces)
        r  == get_gemini_response(s1.model, user_input,
                                  history_of(s1.messages), provider)
        s2 == [s1 EXCEPT !.messages =
                 append_exchange(@, user_input, r.text, timestamp)]
        \* st.rerun(): the script runs again, no button pressed
        s3 == sidebar_configure(s2, api_key)
    IN  IF go
        THEN /\ Len(messages) < MaxLen
             /\ store(s3)
             /\ appends' = appends + 1
             /\ out' = [quiet(kind, s3) EXCEPT
                          !.typed = pieces, !.input = user_input,
                          !.asked = TRUE, !.provider = provider,
                          !.client = r.client, !.sent = r.sent,
                          !.full_prompt = r.full_prompt, !.window = r.window,
                          !.context = r.context, !.response = r.text]
        ELSE /\ store(s1)
             /\ out' = [quiet(kind, s1) EXCEPT !.typed = pieces]
             /\ UNCHANGED appends

-----------------------------------------------------------------------------
(* Actions: the widget the user touches *)

\* The user types a different key into the sidebar's text input.
EnterApiKey ==
    \E key \in Keys \ {api_key} :
        LET s1 == sidebar_configure(session, key)
        IN  /\ api_key' = key
            /\ store(s1)
            /\ out' = quiet("key", s1)
            /\ UNCHANGED appends

\* The user moves one of the two sliders; their values are not stored.
AdjustSettings ==
    LET s1 == sidebar_configure(session, api_key)
    IN  /\ store(s1)
        /\ out' = quiet("settings", s1)
        /\ UNCHANGED <<api_key, appends>>

\* The user presses "Clear Chat".
ClearChat ==
    LET s1 == sidebar_configure(session, api_key)
        s2 == clear_chat(s1)
        \* st.rerun()
        s3 == sidebar_configure(s2, api_key)
    IN  /\ store(s3)
        /\ appends' = 0
        /\ out' = [quiet("clear", s3) EXCEPT !.discarded = Len(s1.messages)]
        /\ UNCHANGED api_key

\* The user presses "Export Chat".
ExportChat ==
    LET s1 == sidebar_configure(session, api_key)
    IN  /\ store(s1)
        /\ out' = [quiet("export", s1) EXCEPT !.download = export_chat(s1.messages)]
        /\ UNCHANGED <<api_key, appends>>

\* The user presses "Send"; the form is on the page only when the last run
\* found the session configured.
SubmitForm ==
    /\ api_key_configured
    /\ \E pieces \in TypedInputs, provider \in ProviderOutcomes,
          timestamp \in Instants :
           submit("send", pieces, provider, timestamp)
    /\ UNCHANGED api_key

\* The user presses one of the three quick-action buttons of the form.
QuickAction ==
    /\ api_key_configured
    /\ Len(messages) < MaxQuickLen
    /\ \E pieces \in QuickActions, provider \in ProviderOutcomes,
          timestamp \in Instants :
           submit("quick", pieces, provider, timestamp)
    /\ UNCHANGED api_key

Init ==
    /\ messages = initialize_session_state.messages
    /\ api_key_configured = initialize_session_state.api_key_configured
    /\ model = initialize_session_state.model
    /\ api_key = ""
    /\ appends = 0
    /\ out = quiet("start", session)

Next ==
    \/ EnterApiKey
    \/ AdjustSettings
    \/ ClearChat
    \/ ExportChat
    \/ SubmitForm
    \/ QuickAction

Spec == Init /\ [][Next]_vars

-----------------------------------------------------------------------------
(* Vocabulary of the properties *)

Last(s) == s[Len(s)]

Front(s) == SubSeq(s, 1, Len(s) - 1)

Range(s) == { s[i] : i \in 1..Len(s) }

\* The lines, each followed by a newline except the last.
RECURSIVE Unlines(_)
Unlines(lines) ==
    IF lines = <<>> THEN ""
    ELSE IF Len(lines) = 1 THEN lines[1]
    ELSE Unlines(Front(lines)) \o "\n" \o Last(lines)

\* The last run processed a send: get_gemini_response was called.
Processed == out.asked

\* The transcript get_gemini_response was given by the send just processed.
Prior == Front(messages)

\* A text that is empty or only whitespace.
Blank(pieces) == \A i \in 1..Len(pieces) : pieces[i] \in Whitespace

-----------------------------------------------------------------------------
\* C1: the context built for a request holds exactly the last min(N, 5)
\* exchanges of the N-exchange transcript, in the transcript's order, each as
\* a "User: ..." line followed by an "Assistant: ..." line.
C1_ContextWindow ==
    out.sent =>
        LET N == Len(Prior)
            k == Min(N, WindowSize)
            lines == [j \in 1..(2 * k) |->
                        IF j % 2 = 1
                        THEN "User: " \o Prior[N - k + (j + 1) \div 2].user
                        ELSE "Assistant: " \o Prior[N - k + j \div 2].assistant]
        IN  /\ Len(out.window) = k
            /\ \A i \in 1..k :
                   /\ out.window[i].user = Prior[N - k + i].user
                   /\ out.window[i].assistant = Prior[N - k + i].assistant
            /\ out.context = Unlines(lines)

\* A request was built from a transcript of more than five exchanges whose
\* oldest exchange, the one left out, differs from the next.
C1_Witness ==
    /\ out.sent
    /\ Len(Prior) > WindowSize
    /\ Prior[1].assistant # Prior[2].assistant

-----------------------------------------------------------------------------
\* C2: the prompt sent to the provider is the user's text alone when the
\* transcript is empty (the first send of a session, the first send after a
\* clear), and "Previous conversation:\n<context>\n\nCurrent question: <text>"
\* whenever the transcript holds at least one exchange.
C2_PromptAssembly ==
    out.sent =>
        IF Prior = <<>>
        THEN out.full_prompt = out.input
        ELSE out.full_prompt =
                 "Previous conversation:\n" \o out.context
                 \o "\n\nCurrent question: " \o out.input

\* A second "hi" was sent after the exchange hi/hello.
C2_Witness ==
    /\ out.sent
    /\ Len(Prior) = 1
    /\ out.full_prompt =
           "Previous conversation:\nUser: hi\nAssistant: hello\n\nCurrent question: hi"

-----------------------------------------------------------------------------
\* C3: whatever the provider does, a processed send returns a string and
\* appends exactly one exchange holding it: the provider's reply unmodified on
\* success, "Error generating response: " followed by the cause on a failure
\* of start_chat or of send_message.
C3_Returned ==
    Processed =>
        /\ out.response =
               IF out.provider.fail_at = "none"
               THEN out.provider.text
               ELSE "Error generating response: " \o out.provider.text
        /\ messages # <<>>
        /\ Last(messages).user = out.input
        /\ Last(messages).assistant = out.response

C3_OneAppended ==
    out'.asked =>
        /\ Len(messages') = Len(messages) + 1
        /\ Front(messages') = messages

\* C3: every processed send returns its string, reply or folded error, and
\* appends exactly one exchange holding it.
C3_FailSoft == [](C3_Returned) /\ [][C3_OneAppended]_vars

\* The provider failed while the chat session was being started, and the
\* error string is the reply stored in the transcript.
C3_Witness ==
    /\ Processed
    /\ out.provider.fail_at = "start_chat"
    /\ ~out.sent
    /\ Last(messages).assistant = "Error generating response: timeout"

-----------------------------------------------------------------------------
\* C4: with no clear in between, the transcript is as long as the number of
\* appends made, and every send adds its exchange at the end and leaves the
\* exchanges before it as they were, in their order.
C4_Counted == Len(messages) = appends

C4_AtTheEnd ==
    (messages' # messages /\ out'.kind # "clear") =>
        /\ out'.asked
        /\ Len(messages') = Len(messages) + 1
        /\ \A i \in 1..Len(messages) : messages'[i] = messages[i]
        /\ Last(messages').user = out'.input
        /\ Last(messages').assistant = out'.response
        /\ appends' = appends + 1

\* C4: the transcript counts the appends and only ever grows at its end.
C4_AppendOnly == [](C4_Counted) /\ [][C4_AtTheEnd]_vars

\* Three sends without a clear, the first two with different outcomes.
C4_Witness ==
    /\ Processed
    /\ appends = 3
    /\ Len(messages) = 3
    /\ messages[1] # messages[2]

-----------------------------------------------------------------------------
\* C5: a clear empties the transcript and leaves the stored client and the
\* configured flag as they were.
C5_ClearStep ==
    out'.kind = "clear" =>
        /\ messages' = <<>>
        /\ model' = model
        /\ api_key_configured' = api_key_configured

\* C5: every clear empties the transcript and keeps the client and the flag.
C5_ClearFrame == [][C5_ClearStep]_vars

\* A transcript of several exchanges was cleared in a configured session.
C5_Witness ==
    /\ out.kind = "clear"
    /\ out.discarded > 1
    /\ messages = <<>>
    /\ model # None
    /\ api_key_configured

-----------------------------------------------------------------------------
\* C6: when the key submitted in the sidebar differs from the key the stored
\* client was established with, the run that receives it calls configure for
\* the new key.
C6_KeyChangeReconfigures ==
    (/\ out.kind = "key"
     /\ model # None
     /\ api_key # ""
     /\ api_key # model.api_key)
        => api_key \in Range(out.calls)

-----------------------------------------------------------------------------
\* C7: every configure attempt that fails is reported as a configuration
\* error and leaves the stored client as it was; in particular a key that
\* cannot be configured, submitted after a key that could, is reported, and
\* the client of the good key stays.
C7_FailureReported ==
    (\E i \in 1..Len(out.calls) : out.calls[i] \notin ValidKeys)
        => out.errors # <<>>

C7_BadKeyAfterGoodReported ==
    (/\ out.kind = "key"
     /\ model # None
     /\ api_key # ""
     /\ api_key \notin ValidKeys)
        => /\ out.errors # <<>>
           /\ model.api_key \in ValidKeys

C7_ClientKept ==
    (\E i \in 1..Len(out'.calls) : out'.calls[i] \notin ValidKeys)
        => model' = model

\* C7: failed attempts are reported and keep the client, and a bad key after
\* a good one is reported.
C7_ConfigFailure ==
    /\ [](C7_FailureReported /\ C7_BadKeyAfterGoodReported)
    /\ [][C7_ClientKept]_vars

-----------------------------------------------------------------------------
\* C8: the send path is open only with a client stored: the flag implies a
\* model, get_gemini_response is given a model, and the transcript stays
\* empty while no configure has succeeded.
C8_ClientBeforeSend ==
    /\ api_key_configured => model # None
    /\ Processed => out.client # None
    /\ model = None => messages = <<>>

\* A send was processed in a configured session, with the stored client.
C8_Witness ==
    /\ Processed
    /\ api_key_configured
    /\ out.client = model
    /\ model # None

-----------------------------------------------------------------------------
\* C9: the export of N exchanges is the 3N lines "User: <text>",
\* "Assistant: <reply>", "---" of the exchanges in order, joined by single
\* newlines, with nothing before or after; nothing is offered for the empty
\* transcript; the transcript is as it was.
C9_Exported ==
    out.kind = "export" =>
        LET N == Len(messages)
            lines == [j \in 1..(3 * N) |->
                        IF j % 3 = 1 THEN "User: " \o messages[(j + 2) \div 3].user
                        ELSE IF j % 3 = 2
                        THEN "Assistant: " \o messages[(j + 1) \div 3].assistant
                        ELSE "---"]
        IN  /\ out.download = IF N = 0 THEN <<>> ELSE << Unlines(lines) >>
            /\ (N = 1 /\ messages[1].user = "hi" /\ messages[1].assistant = "hello")
                   => out.download = << "User: hi\nAssistant: hello\n---" >>

C9_Untouched == out'.kind = "export" => messages' = messages

\* C9: every export has the 3N-line format and leaves the transcript alone.
C9_ExportFormat == [](C9_Exported) /\ [][C9_Untouched]_vars

\* Two different exchanges were exported.
C9_Witness ==
    /\ out.kind = "export"
    /\ out.download =
           << "User: hi\nAssistant: hello\n---\nUser: hi\nAssistant: Error generating response: timeout\n---" >>

-----------------------------------------------------------------------------
\* C10: a submit whose text is empty or only whitespace calls nothing and
\* changes nothing of the session; a submit with any other text calls
\* get_gemini_response and then appends its one exchange, so that the context
\* of the request is taken from the exchanges before it.
C10_SubmitStep ==
    out'.kind \in {"send", "quick"} =>
        IF Blank(out'.typed)
        THEN /\ ~out'.asked
             /\ ~out'.sent
             /\ UNCHANGED <<messages, model, api_key_configured>>
        ELSE /\ out'.asked
             /\ Len(messages') = Len(messages) + 1
             /\ Front(messages') = messages
             /\ Last(messages').user = Str(out'.typed)
             /\ Last(messages').assistant = out'.response
             /\ Len(out'.window) <= Len(messages)
             /\ \A i \in 1..Len(out'.window) :
                    LET m == messages[Len(messages) - Len(out'.window) + i]
                    IN  out'.window[i] = [user |-> m.user, assistant |-> m.assistant]
             /\ UNCHANGED <<model, api_key_configured>>

\* C10: every blank submit is a no-op, every other submit one call and one
\* append.
C10_BlankSubmitNoOp == [][C10_SubmitStep]_vars

\* Only whitespace was submitted to a session that holds exchanges.
C10_Witness ==
    /\ out.kind = "send"
    /\ out.typed = <<" ", "\n">>
    /\ ~out.asked
    /\ messages # <<>>

====
